---- MODULE Spec2Model ----
(***************************************************************************)
(* Model of apps/terminal/backends/command/es.py: the deferred query       *)
(* builder QuerySet (operation log, clone-on-chain, lazily cached derived  *)
(* values, terminal accessors) and the query translator / executor         *)
(* CommandStore in front of an Elasticsearch client.                       *)
(*                                                                         *)
(* Python values are modelled as follows.                                  *)
(*   str used as a key or field name : a sequence of one-character strings *)
(*   objects passed around as values : PyNone, PyInt(n), PyStr(chars)      *)
(*   dict                            : a sequence of <<key, value>> pairs  *)
(*                                     with distinct keys, in insertion    *)
(*                                     order                               *)
(*   list / tuple                    : a sequence                          *)
(*   list objects that can be shared : cells of the heap `lists`           *)
(***************************************************************************)
EXTENDS Integers, Sequences, FiniteSets, TLC

VARIABLES
    lists,      \* heap of the list objects bound to QuerySet._method_calls
    qs,         \* the QuerySet instances, in order of construction
    requests,   \* the calls made on the Elasticsearch client, in order
    history,    \* the operations performed, each with what it was given and gave
    threads     \* SpecThreads: what each thread inside an access holds

vars == <<lists, qs, requests, history, threads>>

-----------------------------------------------------------------------------
(* Bounds of the model *)

MaxOps == 3         \* Spec: operations performed on the QuerySet instances
MaxChain == 3       \* SpecLog: chained calls made one after the other
MaxKeys == 2        \* SpecBody: keys of the filter map translated

-----------------------------------------------------------------------------
(* Python objects *)

PyNone == [none |-> TRUE]
PyInt(n) == [int |-> n]
PyStr(s) == [str |-> s]

\* bool(v) for the objects above
Truthy(v) ==
    IF v = PyNone THEN FALSE
    ELSE IF "int" \in DOMAIN v THEN v.int # 0
    ELSE Len(v.str) > 0

\* string literals of the source and of the inputs
s_exact == <<"_", "_", "e", "x", "a", "c", "t">>
s_user == <<"u", "s", "e", "r">>
s_asset == <<"a", "s", "s", "e", "t">>
s_system_user == <<"s", "y", "s", "t", "e", "m", "_", "u", "s", "e", "r">>
s_session == <<"s", "e", "s", "s", "i", "o", "n">>
s_input == <<"i", "n", "p", "u", "t">>
s_org_id == <<"o", "r", "g", "_", "i", "d">>
s_risk_level == <<"r", "i", "s", "k", "_", "l", "e", "v", "e", "l">>
s_date_from == <<"d", "a", "t", "e", "_", "f", "r", "o", "m">>
s_date_to == <<"d", "a", "t", "e", "_", "t", "o">>
s_timestamp == <<"t", "i", "m", "e", "s", "t", "a", "m", "p">>
s_desc == <<"d", "e", "s", "c">>
s_asc == <<"a", "s", "c">>
s_star == <<"*">>

-----------------------------------------------------------------------------
(* str methods used by the source *)

\* s.startswith(p)
StartsWith(s, p) == Len(s) >= Len(p) /\ SubSeq(s, 1, Len(p)) = p

\* s.replace(old, ''): leftmost non-overlapping occurrences removed, one pass
RECURSIVE StrRemove(_, _)
StrRemove(s, old) ==
    IF s = <<>> THEN <<>>
    ELSE IF StartsWith(s, old) THEN StrRemove(SubSeq(s, Len(old) + 1, Len(s)), old)
    ELSE <<Head(s)>> \o StrRemove(Tail(s), old)

\* s.lstrip(chars)
RECURSIVE LStrip(_, _)
LStrip(s, chars) ==
    IF s # <<>> /\ Head(s) \in chars THEN LStrip(Tail(s), chars) ELSE s

-----------------------------------------------------------------------------
(* dict operations *)

EmptyDict == <<>>

HasKey(d, k) == \E i \in 1..Len(d) : d[i][1] = k

\* d[k] for a key that is present
DictAt(d, k) == d[CHOOSE i \in 1..Len(d) : d[i][1] = k][2]

\* d.get(k) for a dict of objects
DictGet(d, k) == IF HasKey(d, k) THEN DictAt(d, k) ELSE PyNone

\* d[k] = v: a present key keeps its position
DictSet(d, k, v) ==
    IF HasKey(d, k)
    THEN [i \in 1..Len(d) |-> IF d[i][1] = k THEN <<k, v>> ELSE d[i]]
    ELSE Append(d, <<k, v>>)

\* d.pop(k)
DictPop(d, k) == SelectSeq(d, LAMBDA p : p[1] # k)

\* dict(pairs), {k: v for k, v in pairs}: later pairs overwrite earlier ones
RECURSIVE DictFrom(_, _)
DictFrom(d, pairs) ==
    IF pairs = <<>> THEN d
    ELSE DictFrom(DictSet(d, pairs[1][1], pairs[1][2]), Tail(pairs))

\* {**x, **y}
DictMerge(x, y) == DictFrom(x, y)

-----------------------------------------------------------------------------
(* CommandStore *)

index == <<"j", "u", "m", "p", "s", "e", "r", "v", "e", "r">>
doc_type == <<"c", "o", "m", "m", "a", "n", "d", "_", "s", "t", "o", "r", "e">>

\* exact_fields without system_user
exact_fields_NoSystemUser == {s_user, s_asset}

exact_fields == {s_user, s_asset, s_system_user}
match_fields == {s_session, s_input, s_org_id, s_risk_level}

\* the loop over kwargs.items() that fills `exact`
ExactOf(kwargs) == SelectSeq(kwargs, LAMBDA p : p[1] \in exact_fields)

\* the loop over kwargs.items() that fills `match`
MatchOf(kwargs) ==
    SelectSeq(kwargs, LAMBDA p : p[1] \notin exact_fields /\ p[1] \in match_fields)

\* the condition guarding the range clause
HasRange(date_from, date_to) == Truthy(date_from) /\ Truthy(date_to)

\* the time-range part of the filter group
extra_filter(kwargs) ==
    LET date_from == DictGet(kwargs, s_date_from)
        date_to == DictGet(kwargs, s_date_to)
    IN  IF HasRange(date_from, date_to)
        THEN << [range |-> [field |-> s_timestamp, gte |-> date_from, lte |-> date_to]] >>
        ELSE <<>>

\* IsNoOrg testing `not org_id` in the place of `org_id == ''`
IsNoOrg_Falsy(org_id) == ~Truthy(org_id)

\* the condition that turns org_id into an exclusion
IsNoOrg(org_id) == org_id = PyStr(<<>>)

\* CommandStore.get_query_body(**kwargs)
get_query_body(kwargs) ==
    LET match0 == MatchOf(kwargs)
        exact == ExactOf(kwargs)
        org_id == DictGet(match0, s_org_id)
        match == IF IsNoOrg(org_id) THEN DictPop(match0, s_org_id) ELSE match0
        must_not == IF IsNoOrg(org_id)
                    THEN << [wildcard |-> <<s_org_id, s_star>>] >>
                    ELSE <<>>
    IN  [query |-> [bool |->
            [must |-> [i \in 1..Len(match) |-> [match |-> match[i]]],
             must_not |-> must_not,
             filter |-> [i \in 1..Len(exact) |-> [term |-> exact[i]]]
                            \o extra_filter(kwargs)]]]

\* the es.search(...) call made by CommandStore.filter
SearchRequest(query, from_, size, sort) ==
    [api |-> "search",
     kw |-> [index |-> index, doc_type |-> doc_type, body |-> get_query_body(query),
             from_ |-> from_, size |-> size, sort |-> sort]]

\* the es.count(...) call made by CommandStore.count
CountRequest(query) ==
    [api |-> "count",
     kw |-> [index |-> index, doc_type |-> doc_type, body |-> get_query_body(query)]]

\* [item['_source'] for item in data['hits']['hits'] if item]; a hit is the
\* number of its document, 0 standing for a falsy (empty) hit
Sources(hits) == SelectSeq(hits, LAMBDA h : h # 0)

\* AbstractSessionCommand.from_multi_dict: one record per source, in order
from_multi_dict(sources) == [i \in 1..Len(sources) |-> [command |-> sources[i]]]

-----------------------------------------------------------------------------
(* QuerySet: derived values *)

\* the length of the first run of entries with the name of calls[1]
RECURSIVE RunLen(_)
RunLen(calls) ==
    IF Len(calls) <= 1 THEN Len(calls)
    ELSE IF calls[2].name = calls[1].name THEN 1 + RunLen(Tail(calls))
    ELSE 1

\* itertools.groupby(calls, lambda x: x[0]) with each group made a list:
\* one <<name, run>> pair per run of consecutive entries of the same name
RECURSIVE groupby(_)
groupby(calls) ==
    IF calls = <<>> THEN <<>>
    ELSE LET n == RunLen(calls)
         IN  << <<calls[1].name, SubSeq(calls, 1, n)>> >>
                 \o groupby(SubSeq(calls, n + 1, Len(calls)))

\* QuerySet._grouped_method_calls, computed
grouped_method_calls(calls) == DictFrom(EmptyDict, groupby(calls))

\* the kwargs of the last filter call alone
reduce_merge_LastCall(multi_kwargs, acc) ==
    IF multi_kwargs = <<>> THEN acc ELSE multi_kwargs[Len(multi_kwargs)]

\* reduce(lambda x, y: {**x, **y}, multi_kwargs, {})
RECURSIVE reduce_merge(_, _)
reduce_merge(multi_kwargs, acc) ==
    IF multi_kwargs = <<>> THEN acc
    ELSE reduce_merge(Tail(multi_kwargs), DictMerge(acc, multi_kwargs[1]))

\* {k.replace('__exact', ''): v for k, v in kwargs.items()}
StripExact(kwargs) ==
    DictFrom(EmptyDict,
             [i \in 1..Len(kwargs) |-> <<StrRemove(kwargs[i][1], s_exact), kwargs[i][2]>>])

\* QuerySet._filter_kwargs, computed from the grouped calls
filter_kwargs(grouped) ==
    IF ~HasKey(grouped, "filter") THEN EmptyDict
    ELSE LET filter_calls == DictAt(grouped, "filter")
             multi_kwargs == [i \in 1..Len(filter_calls) |-> filter_calls[i].kwargs]
         IN  StripExact(reduce_merge(multi_kwargs, EmptyDict))

\* the sort string of one order_by call with fields
SortOf(fields) ==
    LET field == fields[Len(fields)]
        direction == IF StartsWith(field, <<"-">>) THEN s_desc ELSE s_asc
    IN  PyStr(LStrip(field, {"-", "+"}) \o <<":">> \o direction)

\* the calls walked first to last instead of last to first
RECURSIVE SortFrom_FirstCall(_)
SortFrom_FirstCall(order_by) ==
    IF order_by = <<>> THEN PyNone
    ELSE IF order_by[1].args # <<>> THEN SortOf(order_by[1].args)
    ELSE SortFrom_FirstCall(Tail(order_by))

\* for call in reversed(order_by): the first call with fields decides
RECURSIVE SortFrom(_)
SortFrom(order_by) ==
    IF order_by = <<>> THEN PyNone
    ELSE LET call == order_by[Len(order_by)]
         IN  IF call.args # <<>> THEN SortOf(call.args)
             ELSE SortFrom(SubSeq(order_by, 1, Len(order_by) - 1))

\* QuerySet._sort, computed from the grouped calls
sort(grouped) ==
    IF ~HasKey(grouped, "order_by") THEN PyNone
    ELSE SortFrom(DictAt(grouped, "order_by"))

-----------------------------------------------------------------------------
(* QuerySet: instances *)

\* a lazyproperty that has not been read yet; a read one holds <<value>>
Unset == <<>>

NoCache == [grouped_method_calls |-> Unset, filter_kwargs |-> Unset, sort |-> Unset]

\* QuerySet.__init__ followed by the assignments of __clone / __getitem__
QuerySetOf(method_calls, slice) ==
    [method_calls |-> method_calls, slice |-> slice, cache |-> NoCache]

\* common.utils.lazyproperty: the value is computed at the first read and
\* kept on the instance; later reads return the kept value
lazyproperty(kept, value) == IF kept # Unset THEN kept ELSE <<value>>

\* reading self._grouped_method_calls: the instance afterwards
ReadGrouped(h, q) ==
    [q EXCEPT !.cache.grouped_method_calls =
                  lazyproperty(@, grouped_method_calls(h[q.method_calls]))]

\* reading self._filter_kwargs: the instance afterwards
ReadFilterKwargs(h, q) ==
    IF q.cache.filter_kwargs # Unset THEN q
    ELSE LET q1 == ReadGrouped(h, q)
         IN  [q1 EXCEPT !.cache.filter_kwargs =
                            lazyproperty(@, filter_kwargs(q1.cache.grouped_method_calls[1]))]

\* reading self._sort: the instance afterwards
ReadSort(h, q) ==
    IF q.cache.sort # Unset THEN q
    ELSE LET q1 == ReadGrouped(h, q)
         IN  [q1 EXCEPT !.cache.sort =
                            lazyproperty(@, sort(q1.cache.grouped_method_calls[1]))]

\* the list handed over without a copy
ListCopy_Aliased(h, id) == <<h, id>>

\* self._method_calls.copy(): the heap afterwards and the list returned
ListCopy(h, id) == <<Append(h, h[id]), Len(h) + 1>>

\* a clone that takes the kept derived values with it
clone_WithKeptValues(h, q) ==
    LET c == ListCopy(h, q.method_calls)
    IN  <<c[1], [QuerySetOf(c[2], q.slice) EXCEPT !.cache = q.cache]>>

\* a clone that starts without the slice of its origin
clone_WithoutSlice(h, q) ==
    LET c == ListCopy(h, q.method_calls)
    IN  <<c[1], QuerySetOf(c[2], PyNone)>>

\* QuerySet.__clone: the heap afterwards and the new instance
clone(h, q) ==
    LET c == ListCopy(h, q.method_calls)
    IN  <<c[1], QuerySetOf(c[2], q.slice)>>

\* from_, size = self._slice or (None, None)
Window(slice) ==
    IF slice = PyNone THEN <<PyNone, PyNone>>
    ELSE <<PyInt(slice.from_), PyInt(slice.size)>>

\* size = 10 of __getitem__
DefaultSize == 10

\* the stop taken for the size
SliceOf_StopAsSize(item) ==
    LET from_ == IF Truthy(item.start) THEN item.start.int ELSE 0
        size == IF item.stop = PyNone THEN DefaultSize ELSE item.stop.int
    IN  [from_ |-> from_, size |-> size]

\* the slice set by the first __getitem__(slice(start, stop))
SliceOf(item) ==
    LET from_ == IF Truthy(item.start) THEN item.start.int ELSE 0
        size == IF item.stop = PyNone THEN DefaultSize ELSE item.stop.int - from_
    IN  [from_ |-> from_, size |-> size]

\* names found in QuerySet.__dict__ (name-mangled privates included)
QuerySetDict ==
    {"_method_calls", "_storage", "_command_store_config", "_slice", "__init__",
     "_grouped_method_calls", "_filter_kwargs", "_sort", "_QuerySet__execute",
     "_QuerySet__stage_method_call", "_QuerySet__clone", "count",
     "__getattribute__", "__getitem__", "__repr__", "__iter__"}

\* the methods QuerySet inherits that the callers use
InheritedMethods == {"filter", "order_by", "all"}

\* __getattribute__: TRUE when the attribute is returned as it is
IsDirect(item) == item \in QuerySetDict

\* common.utils.isinstance_method applied to the attribute found under a name
isinstance_method(item) == item \in InheritedMethods

\* __getattribute__: TRUE when a call of the attribute is staged
IsStaged(item) == ~IsDirect(item) /\ isinstance_method(item)

-----------------------------------------------------------------------------
(* list operations on the materialized result *)

Min(a, b) == IF a < b THEN a ELSE b
Max(a, b) == IF a > b THEN a ELSE b

\* a slice bound clamped as list.__getitem__ does
Clamp(i, n) == IF i < 0 THEN Max(i + n, 0) ELSE Min(i, n)

\* data[start:stop]
ListSlice(data, item) ==
    LET n == Len(data)
        lo == IF item.start = PyNone THEN 0 ELSE Clamp(item.start.int, n)
        hi == IF item.stop = PyNone THEN n ELSE Clamp(item.stop.int, n)
    IN  SubSeq(data, lo + 1, hi)

\* data[i], or IndexError
ListIndex(data, i) ==
    LET n == Len(data)
        j == IF i < 0 THEN i + n ELSE i
    IN  IF j >= 0 /\ j < n THEN [value |-> data[j + 1]] ELSE [raise |-> "IndexError"]

\* data[item] for a slice or an integer
ListGetItem(data, item) ==
    IF "start" \in DOMAIN item THEN [value |-> ListSlice(data, item)]
    ELSE ListIndex(data, item.int)

-----------------------------------------------------------------------------
(* Inputs *)

Entry(name, args, kwargs) == [name |-> name, args |-> args, kwargs |-> kwargs]

Kw(k, v) == << <<k, PyStr(<<v>>)>> >>

\* keyword arguments given to filter(...)
FilterKwargs ==
    {Kw(s_user, "a"), Kw(s_user, "b"), Kw(s_user \o s_exact, "c"), Kw(s_asset, "x")}

\* positional arguments given to order_by(...)
OrderByArgs ==
    {<< <<"-">> \o s_timestamp >>, <<s_user, <<"-">> \o s_session>>,
     << <<"+">> \o s_user >>, <<>>}

\* the calls made through the attributes of a QuerySet, in SpecLog
LogCalls ==
    {Entry("filter", <<>>, kw) : kw \in FilterKwargs}
        \cup {Entry("order_by", a, EmptyDict) : a \in OrderByArgs}
        \cup {Entry("all", <<>>, EmptyDict)}

\* the calls made through the attributes of a QuerySet, in Spec
Calls ==
    {Entry("filter", <<>>, Kw(s_user, "a")),
     Entry("order_by", << <<"-">> \o s_timestamp >>, EmptyDict),
     Entry("all", <<>>, EmptyDict)}

PySlice(start, stop) == [start |-> start, stop |-> stop]

\* the slices given to __getitem__
Slices ==
    {PySlice(PyInt(5), PyInt(15)), PySlice(PyInt(5), PyNone),
     PySlice(PyInt(0), PyInt(20)), PySlice(PyInt(1), PyNone)}

\* the slices given to __getitem__, in SpecLog
LogSlices == {PySlice(PyInt(0), PyInt(20))}

\* the integer keys given to __getitem__
Indexes == {PyInt(0), PyInt(2)}

Raised == [raise |-> "TransportError"]

\* what es.search may do: raise, or return hits
SearchResponses == {Raised, [hits |-> <<1, 0, 2>>]}

\* what es.count may do: raise, or return a count
CountResponses == {Raised, [count |-> 2]}

\* the items a translated filter map is made of, in SpecBody
QueryItems ==
    {<<s_user, PyStr(<<"a">>)>>, <<s_asset, PyStr(<<"x">>)>>,
     <<s_system_user, PyStr(<<"r">>)>>, <<s_session, PyStr(<<"s">>)>>,
     <<s_input, PyStr(<<"l", "s">>)>>, <<s_risk_level, PyInt(5)>>,
     <<s_org_id, PyStr(<<>>)>>, <<s_org_id, PyStr(<<"o">>)>>,
     <<s_date_from, PyInt(0)>>, <<s_date_from, PyInt(5)>>,
     <<s_date_to, PyInt(0)>>, <<s_date_to, PyInt(9)>>,
     <<<<"f", "o", "o">>, PyStr(<<"z">>)>>}

\* the filter maps translated in SpecBody: dicts of at most MaxKeys items
QueryMaps ==
    {d \in UNION {[1..n -> QueryItems] : n \in 0..MaxKeys} :
        \A i, j \in 1..Len(d) : i # j => d[i][1] # d[j][1]}

-----------------------------------------------------------------------------
(* QuerySet: operations *)

\* one operation: its name, the instance it was called on, its argument, the
\* backend's answer, the requests it made and what it gave back
Op(op, self, item, resp, reqs, out) ==
    [op |-> op, self |-> self, item |-> item, resp |-> resp, reqs |-> reqs, out |-> out]

last == history[Len(history)]

OpsDone == Len(history) - 1

\* a search whose error is caught and answered with an empty result
StoreFilter_CatchesError(query, from_, size, sort_, resp) ==
    [reqs |-> <<SearchRequest(query, from_, size, sort_)>>,
     out |-> IF resp = Raised THEN [value |-> <<>>]
             ELSE [value |-> from_multi_dict(Sources(resp.hits))]]

\* CommandStore.filter with the backend answering resp: request and outcome
StoreFilter(query, from_, size, sort_, resp) ==
    [reqs |-> <<SearchRequest(query, from_, size, sort_)>>,
     out |-> IF resp = Raised THEN Raised
             ELSE [value |-> from_multi_dict(Sources(resp.hits))]]

\* CommandStore.count with the backend answering resp: request and outcome
StoreCount(query, resp) ==
    [reqs |-> <<CountRequest(query)>>,
     out |-> IF resp = Raised THEN Raised ELSE [value |-> resp.count]]

\* an execution that is skipped once the instance has executed before
Execute_Once(h, q, resp) ==
    LET q1 == ReadFilterKwargs(h, q)
        q2 == ReadSort(h, q1)
        w == Window(q2.slice)
        r == StoreFilter(q2.cache.filter_kwargs[1], w[1], w[2], q2.cache.sort[1], resp)
    IN  [q |-> q2, reqs |-> IF q.cache.sort = Unset THEN r.reqs ELSE <<>>, out |-> r.out]

\* QuerySet.__execute with the backend answering resp:
\* the instance afterwards, the requests made and the outcome
Execute(h, q, resp) ==
    LET q1 == ReadFilterKwargs(h, q)
        q2 == ReadSort(h, q1)
        w == Window(q2.slice)
        r == StoreFilter(q2.cache.filter_kwargs[1], w[1], w[2], q2.cache.sort[1], resp)
    IN  [q |-> q2, reqs |-> r.reqs, out |-> r.out]

Init ==
    /\ lists = << <<>> >>
    /\ qs = << QuerySetOf(1, PyNone) >>
    /\ requests = <<>>
    /\ history = << Op("__init__", 1, PyNone, PyNone, <<>>, [qs |-> 1]) >>
    /\ threads = <<>>

\* the new entry put in front of the log
StageMethodCall_Prepends(self, call) ==
    /\ IsStaged(call.name)
    /\ LET c == clone(lists, qs[self])
       IN  /\ lists' = [c[1] EXCEPT ![c[2].method_calls] = <<call>> \o @]
           /\ qs' = Append(qs, c[2])
    /\ history' = Append(history, Op("stage", self, call, PyNone, <<>>, [qs |-> Len(qs) + 1]))
    /\ UNCHANGED requests

\* self.<name>(*args, **kwargs) for a staged name: __stage_method_call
StageMethodCall(self, call) ==
    /\ IsStaged(call.name)
    /\ LET c == clone(lists, qs[self])
       IN  /\ lists' = [c[1] EXCEPT ![c[2].method_calls] = Append(@, call)]
           /\ qs' = Append(qs, c[2])
    /\ history' = Append(history, Op("stage", self, call, PyNone, <<>>, [qs |-> Len(qs) + 1]))
    /\ UNCHANGED requests

\* a first slice that executes at once
GetItemFirstSlice_Eager(self, item) ==
    /\ qs[self].slice = PyNone
    /\ LET c == clone(lists, qs[self])
           e == Execute(c[1], [c[2] EXCEPT !.slice = SliceOf(item)], [hits |-> <<>>])
       IN  /\ lists' = c[1]
           /\ qs' = Append(qs, e.q)
           /\ requests' = requests \o e.reqs
           /\ history' = Append(history,
                               Op("slice", self, item, PyNone, e.reqs, [qs |-> Len(qs) + 1]))

\* self[item] for a slice on an instance without a slice
GetItemFirstSlice(self, item) ==
    /\ qs[self].slice = PyNone
    /\ LET c == clone(lists, qs[self])
       IN  /\ lists' = c[1]
           /\ qs' = Append(qs, [c[2] EXCEPT !.slice = SliceOf(item)])
    /\ history' = Append(history, Op("slice", self, item, PyNone, <<>>, [qs |-> Len(qs) + 1]))
    /\ UNCHANGED requests

\* self[item] for an integer, or for a slice on an instance that has a slice
GetItemExecute(self, item, resp) ==
    /\ "start" \in DOMAIN item => qs[self].slice # PyNone
    /\ LET e == Execute(lists, qs[self], resp)
       IN  /\ qs' = [qs EXCEPT ![self] = e.q]
           /\ requests' = requests \o e.reqs
           /\ history' = Append(history, Op("getitem", self, item, resp, e.reqs,
                                 IF e.out = Raised THEN Raised
                                 ELSE ListGetItem(e.out.value, item)))
    /\ UNCHANGED lists

\* repr(self)
Repr(self, resp) ==
    /\ LET e == Execute(lists, qs[self], resp)
       IN  /\ qs' = [qs EXCEPT ![self] = e.q]
           /\ requests' = requests \o e.reqs
           /\ history' = Append(history, Op("repr", self, PyNone, resp, e.reqs, e.out))
    /\ UNCHANGED lists

\* iter(self)
Iter(self, resp) ==
    /\ LET e == Execute(lists, qs[self], resp)
       IN  /\ qs' = [qs EXCEPT ![self] = e.q]
           /\ requests' = requests \o e.reqs
           /\ history' = Append(history, Op("iter", self, PyNone, resp, e.reqs, e.out))
    /\ UNCHANGED lists

\* self.count()
Count(self, resp) ==
    /\ IsDirect("count")
    /\ LET q1 == ReadFilterKwargs(lists, qs[self])
           r == StoreCount(q1.cache.filter_kwargs[1], resp)
       IN  /\ qs' = [qs EXCEPT ![self] = q1]
           /\ requests' = requests \o r.reqs
           /\ history' = Append(history, Op("count", self, PyNone, resp, r.reqs, r.out))
    /\ UNCHANGED lists

Next ==
    /\ OpsDone < MaxOps
    /\ UNCHANGED threads
    /\ \E self \in 1..Len(qs) :
        \/ \E call \in Calls : StageMethodCall(self, call)
        \/ \E item \in Slices : GetItemFirstSlice(self, item)
        \/ \E item \in Slices \cup Indexes, resp \in SearchResponses :
                GetItemExecute(self, item, resp)
        \/ \E resp \in SearchResponses : Repr(self, resp)
        \/ \E resp \in SearchResponses : Iter(self, resp)
        \/ \E resp \in CountResponses : Count(self, resp)

Spec == Init /\ [][Next]_vars

\* the instance a chain of calls has arrived at
Latest == Len(qs)

\* one chain of calls, each made on the instance the call before returned, and
\* one terminal access at its end
NextLog ==
    /\ requests = <<>>
    /\ UNCHANGED threads
    /\ \/ /\ Len(qs) <= MaxChain
          /\ \/ \E call \in LogCalls : StageMethodCall(Latest, call)
             \/ \E item \in LogSlices : GetItemFirstSlice(Latest, item)
       \/ \E item \in LogSlices \cup Indexes, resp \in SearchResponses :
                GetItemExecute(Latest, item, resp)
       \/ \E resp \in SearchResponses : Repr(Latest, resp)
       \/ \E resp \in SearchResponses : Iter(Latest, resp)
       \/ \E resp \in CountResponses : Count(Latest, resp)

SpecLog == Init /\ [][NextLog]_vars

\* a filter map about to be translated
InitBody ==
    /\ lists = <<>>
    /\ qs = <<>>
    /\ requests = <<>>
    /\ \E query \in QueryMaps :
           history = << Op("kwargs", 0, query, PyNone, <<>>, PyNone) >>
    /\ threads = <<>>

\* CommandStore.get_query_body(**query)
GetQueryBody ==
    /\ last.op = "kwargs"
    /\ history' = Append(history, Op("get_query_body", 0, last.item, PyNone, <<>>,
                                     [value |-> get_query_body(last.item)]))
    /\ UNCHANGED <<lists, qs, requests, threads>>

NextBody == GetQueryBody

SpecBody == InitBody /\ [][NextBody]_vars

-----------------------------------------------------------------------------
(* Vocabulary of the properties *)

\* the operation log of instance i
Log(i) == lists[qs[i].method_calls]

\* the entries of a log made by calls of one name
EntriesOf(log, name) == SelectSeq(log, LAMBDA e : e.name = name)

\* the keys of a dict
Keys(d) == {d[i][1] : i \in 1..Len(d)}

\* sub occurs in s
Contains(s, sub) ==
    \E i \in 1..(Len(s) - Len(sub) + 1) : SubSeq(s, i, i + Len(sub) - 1) = sub

\* the filter calls of a log that give key k
Giving(log, k) ==
    {n \in 1..Len(log) : log[n].name = "filter" /\ k \in Keys(log[n].kwargs)}

MaxOf(S) == CHOOSE n \in S : \A m \in S : m <= n

IsSlice(item) == "start" \in DOMAIN item

\* the operations that materialize the result of a search
IsAccess(o) == o.op \in {"iter", "repr", "getitem"}

\* the operations that return a new instance
IsChaining(o) == o.op \in {"stage", "slice"}

\* the instances that have read their merged filter map
Derived == {i \in 1..Len(qs) : qs[i].cache.filter_kwargs # Unset}

MergedOf(i) == qs[i].cache.filter_kwargs[1]

-----------------------------------------------------------------------------
(* Properties *)

\* C1: the merged filter map used at execution is the left-to-right union of
\* the kwargs of all filter entries of the log, whatever entries lie between
\* them: every key given to a filter call is present, with the value of the
\* last filter call that gave it. (Stated for logs whose keys carry no
\* __exact suffix, which C6 is about.)
C1_MergedIsUnionOfAllFilters ==
    \A i \in Derived :
        LET log == Log(i)
            given == UNION {Keys(log[n].kwargs) : n \in 1..Len(log)}
        IN  (\A k \in given : ~Contains(k, s_exact)) =>
                /\ Keys(MergedOf(i)) = given
                /\ \A k \in given :
                       DictAt(MergedOf(i), k) = DictAt(log[MaxOf(Giving(log, k))].kwargs, k)

-----------------------------------------------------------------------------
\* the requests made by the operations of the history, in order
RECURSIVE RequestsOf(_)
RequestsOf(h) == IF h = <<>> THEN <<>> ELSE h[1].reqs \o RequestsOf(Tail(h))

OnlyChaining == \A n \in 2..Len(history) : IsChaining(history[n])

\* C2 as claimed: chaining (filter, order_by, other staged calls, a first
\* slice) makes no request, and only iteration, indexing with a non-slice key,
\* count and string rendering make one.
C2_OnlyListedTerminalsRequest ==
    /\ OnlyChaining => requests = <<>>
    /\ requests = RequestsOf(history)
    /\ \A n \in 1..Len(history) :
           history[n].reqs # <<>> =>
               \/ history[n].op \in {"iter", "repr", "count"}
               \/ history[n].op = "getitem" /\ ~IsSlice(history[n].item)

\* C2 as amended: chaining makes no request; a request is made only by
\* iteration, indexing with a non-slice key, count, string rendering, and by a
\* slice of an instance that already has a window.
C2_ChainingMakesNoRequest ==
    /\ OnlyChaining => requests = <<>>
    /\ requests = RequestsOf(history)
    /\ \A n \in 1..Len(history) :
           history[n].reqs # <<>> =>
               \/ history[n].op \in {"iter", "repr", "count"}
               \/ history[n].op = "getitem" /\ ~IsSlice(history[n].item)
               \/ /\ history[n].op = "getitem"
                  /\ IsSlice(history[n].item)
                  /\ qs[history[n].self].slice # PyNone

\* a staged call and a first slice have been made and nothing was requested
C2_Witness ==
    /\ OnlyChaining
    /\ requests = <<>>
    /\ \E i \in 1..Len(qs) : qs[i].slice # PyNone /\ Log(i) # <<>>

\* C3: every iteration, integer indexing and string rendering makes exactly
\* one search request, and the accesses of one instance all make the same
\* request (same body, from, size and sort): nothing is memoized.
C3_OneSearchPerAccess ==
    /\ \A n \in 1..Len(history) :
           IsAccess(history[n]) =>
               Len(history[n].reqs) = 1 /\ history[n].reqs[1].api = "search"
    /\ \A m, n \in 1..Len(history) :
           IsAccess(history[m]) /\ IsAccess(history[n])
                   /\ history[m].self = history[n].self =>
               history[m].reqs = history[n].reqs
    /\ Len(SelectSeq(requests, LAMBDA r : r.api = "search"))
           = Cardinality({n \in 1..Len(history) : IsAccess(history[n])})

\* one instance with a log has been accessed twice, in two different ways
C3_Witness ==
    \E m, n \in 1..Len(history) :
        /\ m < n
        /\ IsAccess(history[m]) /\ IsAccess(history[n])
        /\ history[m].op # history[n].op
        /\ history[m].self = history[n].self
        /\ Log(history[n].self) # <<>>
        /\ Len(requests) = 2

\* C4: a chained call (staged method or first slice) leaves every existing
\* instance as it was: same log, same window, same derived filter map and
\* sort; the instance returned is new and its log is a list of its own.
C4_ReceiverUnchanged ==
    [][Len(history') = Len(history) + 1 /\ IsChaining(last') =>
           /\ Len(qs') = Len(qs) + 1
           /\ last'.out = [qs |-> Len(qs')]
           /\ \A i \in 1..Len(qs) :
                  /\ qs'[i] = qs[i]
                  /\ lists'[qs'[i].method_calls] = lists[qs[i].method_calls]
                  /\ qs'[Len(qs')].method_calls # qs[i].method_calls
                  /\ filter_kwargs(grouped_method_calls(lists'[qs'[i].method_calls]))
                         = filter_kwargs(grouped_method_calls(lists[qs[i].method_calls]))
                  /\ sort(grouped_method_calls(lists'[qs'[i].method_calls]))
                         = sort(grouped_method_calls(lists[qs[i].method_calls]))]_vars

\* a call was chained on an instance that had itself been returned by a
\* chained call; the three logs differ
C4_Witness ==
    /\ Len(qs) = 3
    /\ last.op = "stage" /\ last.self = 2
    /\ Log(1) = <<>> /\ Len(Log(2)) = 1 /\ Len(Log(3)) = 2

-----------------------------------------------------------------------------
\* the instances that have read their sort
Sorted == {i \in 1..Len(qs) : qs[i].cache.sort # Unset}

SortOfInstance(i) == qs[i].cache.sort[1]

\* a field name without its leading signs
Unsigned(f) ==
    LET signs == {p \in 0..Len(f) : \A r \in 1..p : f[r] \in {"-", "+"}}
    IN  SubSeq(f, MaxOf(signs) + 1, Len(f))

\* "<field>:desc" for a last field that starts with '-', "<field>:asc" otherwise
SortClaimed(fields) ==
    LET f == fields[Len(fields)]
    IN  PyStr(Unsigned(f) \o <<":">>
                  \o (IF f # <<>> /\ f[1] = "-" THEN s_desc ELSE s_asc))

\* C5 as claimed: the sort depends only on the last order_by entry of the log:
\* it is the sort of that entry's last field, and the sort of the log that
\* holds that entry alone, whatever order_by calls came before.
C5_SortFromLastOrderByOnly ==
    \A i \in Sorted :
        LET calls == EntriesOf(Log(i), "order_by")
            e == calls[Len(calls)]
        IN  calls # <<>> =>
                /\ e.args # <<>> => SortOfInstance(i) = SortClaimed(e.args)
                /\ SortOfInstance(i) = sort(grouped_method_calls(<<e>>))

\* C5 as amended: when the last order_by entry of the log has at least one
\* field, the sort depends only on that entry: it is the sort of its last
\* field, and the sort of the log that holds that entry alone.
C5_SortFromLastOrderByWithFields ==
    \A i \in Sorted :
        LET calls == EntriesOf(Log(i), "order_by")
            e == calls[Len(calls)]
        IN  calls # <<>> /\ e.args # <<>> =>
                /\ SortOfInstance(i) = SortClaimed(e.args)
                /\ SortOfInstance(i) = sort(grouped_method_calls(<<e>>))

\* an executed chain with two order_by calls of different fields, the last
\* one descending on the last of its two fields
C5_Witness ==
    \E i \in Sorted :
        LET calls == EntriesOf(Log(i), "order_by")
        IN  /\ Len(calls) >= 2
            /\ calls[1].args # <<>> /\ calls[1].args # calls[Len(calls)].args
            /\ Len(calls[Len(calls)].args) = 2
            /\ SortOfInstance(i) = PyStr(s_session \o <<":">> \o s_desc)
            /\ requests # <<>>

\* a key without its exactness suffix
BaseOf(k) ==
    IF Len(k) >= Len(s_exact) /\ SubSeq(k, Len(k) - Len(s_exact) + 1, Len(k)) = s_exact
    THEN SubSeq(k, 1, Len(k) - Len(s_exact))
    ELSE k

\* the filter calls of a log that name field f, as f or as f__exact
Naming(log, f) ==
    {n \in 1..Len(log) :
        log[n].name = "filter" /\ f \in {BaseOf(k) : k \in Keys(log[n].kwargs)}}

\* the value a filter call gives to field f
ValueFor(kwargs, f) ==
    IF HasKey(kwargs, f) THEN DictAt(kwargs, f) ELSE DictAt(kwargs, f \o s_exact)

\* C6: for a sequence of filter calls, no key of the merged filter map
\* contains __exact, and the merged value of a field is the one given by the
\* last filter call that named it, with or without the suffix.
C6_ExactIsSameKeyLastWins ==
    \A i \in Derived :
        LET log == Log(i)
            fields == UNION {{BaseOf(k) : k \in Keys(log[n].kwargs)} : n \in 1..Len(log)}
        IN  (\A n \in 1..Len(log) : log[n].name = "filter") =>
                /\ Keys(MergedOf(i)) = fields
                /\ \A k \in Keys(MergedOf(i)) : ~Contains(k, s_exact)
                /\ \A f \in fields :
                       DictAt(MergedOf(i), f)
                           = ValueFor(log[MaxOf(Naming(log, f))].kwargs, f)

\* C7: count() makes exactly one count request, without sort, from or size,
\* and its body is the one counted for the same filter calls in the same
\* order with no order_by, no other call and no slice in the chain.
C7_CountUsesFilterCallsOnly ==
    \A n \in 1..Len(history) :
        history[n].op = "count" =>
            /\ Len(history[n].reqs) = 1
            /\ history[n].reqs[1].api = "count"
            /\ DOMAIN history[n].reqs[1].kw = {"index", "doc_type", "body"}
            /\ history[n].reqs[1]
                   = CountRequest(filter_kwargs(grouped_method_calls(
                                      EntriesOf(Log(history[n].self), "filter"))))

\* the range clauses of a translated body
RangesOf(body) == SelectSeq(body.query.bool.filter, LAMBDA c : "range" \in DOMAIN c)

\* C8: the filter group holds a range clause on timestamp, gte=date_from and
\* lte=date_to, exactly when both keys are in the filter map, whatever their
\* values (0 included); with one of them alone there is none.
C8_RangeIffBothKeys ==
    \A n \in 1..Len(history) :
        history[n].op = "get_query_body" =>
            LET query == history[n].item
                ranges == RangesOf(history[n].out.value)
            IN  IF HasKey(query, s_date_from) /\ HasKey(query, s_date_to)
                THEN ranges = << [range |-> [field |-> s_timestamp,
                                             gte |-> DictAt(query, s_date_from),
                                             lte |-> DictAt(query, s_date_to)]] >>
                ELSE ranges = <<>>

-----------------------------------------------------------------------------
\* the window a slice asks for: offset = start or 0, size = stop - offset,
\* or 10 without a stop
WindowClaimed(item) ==
    LET offset == IF item.start = PyNone THEN 0 ELSE item.start.int
    IN  [from_ |-> offset,
         size |-> IF item.stop = PyNone THEN 10 ELSE item.stop.int - offset]

\* C9: the first slice [start:stop] of an instance without a window returns
\* a new instance whose window is (start or 0, stop - offset), the size being
\* 10 without a stop, and makes no request: [5:15] and [5:] give (5, 10),
\* [0:20] gives (0, 20). An access of that instance sends the window as
\* from and size.
C9_FirstSliceSetsWindow ==
    \A n \in 1..Len(history) :
        history[n].op = "slice" =>
            LET item == history[n].item
                new == history[n].out.qs
            IN  /\ history[n].reqs = <<>>
                /\ new # history[n].self
                /\ qs[new].slice = WindowClaimed(item)
                /\ item = PySlice(PyInt(5), PyInt(15)) => qs[new].slice = [from_ |-> 5, size |-> 10]
                /\ item = PySlice(PyInt(5), PyNone) => qs[new].slice = [from_ |-> 5, size |-> 10]
                /\ item = PySlice(PyInt(0), PyInt(20)) => qs[new].slice = [from_ |-> 0, size |-> 20]
                /\ \A m \in 1..Len(history) :
                       IsAccess(history[m]) /\ history[m].self = new =>
                           /\ history[m].reqs[1].kw.from_ = PyInt(WindowClaimed(item).from_)
                           /\ history[m].reqs[1].kw.size = PyInt(WindowClaimed(item).size)

\* [5:15] was taken of an instance with a log and the result was iterated
C9_Witness ==
    \E n, m \in 1..Len(history) :
        /\ history[n].op = "slice"
        /\ history[n].item = PySlice(PyInt(5), PyInt(15))
        /\ Log(history[n].self) # <<>>
        /\ history[m].op = "iter"
        /\ history[m].self = history[n].out.qs
        /\ history[m].reqs[1].kw.from_ = PyInt(5)
        /\ history[m].reqs[1].kw.size = PyInt(10)

\* data[start:stop] for bounds that are not negative: the elements at the
\* positions start, start + 1, ... below stop
SliceClaimed(data, item) ==
    LET at == {p \in 1..Len(data) :
                  /\ item.start # PyNone => p - 1 >= item.start.int
                  /\ item.stop # PyNone => p - 1 < item.stop.int}
        first == IF at = {} THEN 0 ELSE CHOOSE p \in at : \A r \in at : p <= r
    IN  [k \in 1..Cardinality(at) |-> data[first + k - 1]]

\* C10: the window of an instance never changes; an instance returned by a
\* staged call has the window of the instance it was called on; a slice of an
\* instance that has a window w returns no instance: it makes exactly one
\* search with from/size = w and returns the slice of the result in memory.
C10_WindowSetOnce ==
    [][Len(history') = Len(history) + 1 =>
           /\ \A i \in 1..Len(qs) : qs'[i].slice = qs[i].slice
           /\ last'.op = "stage" => qs'[last'.out.qs].slice = qs[last'.self].slice
           /\ last'.op = "slice" => qs[last'.self].slice = PyNone
           /\ last'.op = "getitem" /\ IsSlice(last'.item) =>
                  LET w == qs[last'.self].slice
                  IN  /\ w # PyNone
                      /\ Len(qs') = Len(qs)
                      /\ Len(last'.reqs) = 1
                      /\ last'.reqs[1].api = "search"
                      /\ last'.reqs[1].kw.from_ = PyInt(w.from_)
                      /\ last'.reqs[1].kw.size = PyInt(w.size)
                      /\ requests' = Append(requests, last'.reqs[1])
                      /\ last'.resp # Raised =>
                             last'.out = [value |-> SliceClaimed(
                                 from_multi_dict(Sources(last'.resp.hits)), last'.item)]]_vars

\* a slice, a staged call on the sliced instance, and a second slice that
\* cut the result in memory
C10_Witness ==
    /\ Len(history) = 4
    /\ history[2].op = "slice"
    /\ history[3].op = "stage" /\ history[3].self = history[2].out.qs
    /\ last.op = "getitem" /\ IsSlice(last.item) /\ last.self = history[3].out.qs
    /\ qs[last.self].slice = WindowClaimed(history[2].item)
    /\ last.out = [value |-> << [command |-> 2] >>]

-----------------------------------------------------------------------------
\* the clauses of a clause list that are of one type and name one field
ClausesOn(clauses, type, field) ==
    SelectSeq(clauses, LAMBDA c : type \in DOMAIN c /\ c[type][1] = field)

\* C11: with org_id = "" in the filter map the body has no match clause on
\* org_id in `must` and exactly the clause {wildcard: {org_id: "*"}} in
\* `must_not`; with org_id absent or not empty `must_not` is empty.
C11_EmptyOrgExcludes ==
    \A n \in 1..Len(history) :
        history[n].op = "get_query_body" =>
            LET query == history[n].item
                bool == history[n].out.value.query.bool
            IN  IF HasKey(query, s_org_id) /\ DictAt(query, s_org_id) = PyStr(<<>>)
                THEN /\ ClausesOn(bool.must, "match", s_org_id) = <<>>
                     /\ bool.must_not = << [wildcard |-> <<s_org_id, s_star>>] >>
                ELSE bool.must_not = <<>>

\* a translated filter map that holds org_id = "" beside another match field
C11_Witness ==
    /\ last.op = "get_query_body"
    /\ DictGet(last.item, s_org_id) = PyStr(<<>>)
    /\ HasKey(last.item, s_session)
    /\ last.out.value.query.bool.must_not = << [wildcard |-> <<s_org_id, s_star>>] >>
    /\ Len(last.out.value.query.bool.must) = 1

-----------------------------------------------------------------------------
\* the clauses of a clause list that name one field, whatever their type
ClausesNaming(clauses, field) ==
    SelectSeq(clauses, LAMBDA c :
        \/ "range" \notin DOMAIN c /\ c[CHOOSE t \in DOMAIN c : TRUE][1] = field
        \/ "range" \in DOMAIN c /\ c.range.field = field)

\* C12: every key of the filter map is routed by its name alone: user, asset
\* and system_user each give exactly one term clause in `filter` and nothing
\* in `must`; session, input, risk_level and an org_id that is not "" each
\* give exactly one match clause in `must` and nothing in `filter`; every
\* other key but date_from and date_to gives no clause at all, and the
\* translation returns a body.
C12_RoutingByName ==
    \A n \in 1..Len(history) :
        history[n].op = "get_query_body" =>
            LET query == history[n].item
                out == history[n].out
            IN  /\ DOMAIN out = {"value"}
                /\ \A i \in 1..Len(query) :
                    LET k == query[i][1]
                        v == query[i][2]
                        bool == out.value.query.bool
                    IN  /\ k \in {s_user, s_asset, s_system_user} =>
                            /\ ClausesNaming(bool.filter, k) = << [term |-> <<k, v>>] >>
                            /\ ClausesNaming(bool.must, k) = <<>>
                        /\ \/ k \in {s_session, s_input, s_risk_level}
                           \/ k = s_org_id /\ v # PyStr(<<>>)
                           => /\ ClausesNaming(bool.must, k) = << [match |-> <<k, v>>] >>
                              /\ ClausesNaming(bool.filter, k) = <<>>
                        /\ k \notin {s_user, s_asset, s_system_user, s_session, s_input,
                                     s_risk_level, s_org_id, s_date_from, s_date_to} =>
                            /\ ClausesNaming(bool.filter, k) = <<>>
                            /\ ClausesNaming(bool.must, k) = <<>>
                            /\ ClausesNaming(bool.must_not, k) = <<>>

\* a translated filter map with an exact field and a match field
C12_Witness ==
    /\ last.op = "get_query_body"
    /\ HasKey(last.item, s_system_user)
    /\ HasKey(last.item, s_risk_level)
    /\ last.out.value.query.bool.filter = << [term |-> <<s_system_user, PyStr(<<"r">>)>>] >>
    /\ last.out.value.query.bool.must = << [match |-> <<s_risk_level, PyInt(5)>>] >>

-----------------------------------------------------------------------------
(* The chain filter(user="alice").filter(risk_level=5).order_by("-timestamp")[0:20] *)

\* the longest chain of calls in SpecChain
MaxCalls == 4

s_alice == <<"a", "l", "i", "c", "e">>

\* the calls of the chain
ChainCalls ==
    {Entry("filter", <<>>, << <<s_user, PyStr(s_alice)>> >>),
     Entry("filter", <<>>, << <<s_risk_level, PyInt(5)>> >>),
     Entry("order_by", << <<"-">> \o s_timestamp >>, EmptyDict)}

\* the slice of the chain
ChainSlices == {PySlice(PyInt(0), PyInt(20))}

\* the calls and the slice of the chain made in any order, each on the
\* instance the call before returned, and the result iterated
NextChain ==
    /\ requests = <<>>
    /\ UNCHANGED threads
    /\ \/ /\ Len(qs) <= MaxCalls
          /\ \/ \E call \in ChainCalls : StageMethodCall(Latest, call)
             \/ \E item \in ChainSlices : GetItemFirstSlice(Latest, item)
       \/ \E resp \in SearchResponses : Iter(Latest, resp)

SpecChain == Init /\ [][NextChain]_vars

\* the chain of C13 has been built, one call on the result of the other
ChainBuilt ==
    /\ Len(history) >= 5
    /\ history[2].op = "stage"
    /\ history[2].item = Entry("filter", <<>>, << <<s_user, PyStr(s_alice)>> >>)
    /\ history[3].op = "stage"
    /\ history[3].item = Entry("filter", <<>>, << <<s_risk_level, PyInt(5)>> >>)
    /\ history[4].op = "stage"
    /\ history[4].item = Entry("order_by", << <<"-">> \o s_timestamp >>, EmptyDict)
    /\ history[5].op = "slice"
    /\ history[5].item = PySlice(PyInt(0), PyInt(20))

\* C13: iterating filter(user="alice").filter(risk_level=5)
\* .order_by("-timestamp")[0:20] makes exactly one search request, with
\* filter = [term user=alice], must = [match risk_level=5], must_not = [],
\* sort = "timestamp:desc", from = 0 and size = 20.
C13_ChainIssuesOneSearch ==
    ChainBuilt /\ last.op = "iter" /\ last.self = history[5].out.qs =>
        /\ last.reqs = requests
        /\ requests =
             << [api |-> "search",
                 kw |-> [index |-> index, doc_type |-> doc_type,
                         body |-> [query |-> [bool |->
                             [must |-> << [match |-> <<s_risk_level, PyInt(5)>>] >>,
                              must_not |-> <<>>,
                              filter |-> << [term |-> <<s_user, PyStr(s_alice)>>] >>]]],
                         from_ |-> PyInt(0), size |-> PyInt(20),
                         sort |-> PyStr(s_timestamp \o <<":">> \o s_desc)]] >>

\* the chain built and iterated, the backend having answered with hits
C13_Witness ==
    /\ ChainBuilt
    /\ Len(history) = 6
    /\ last.op = "iter"
    /\ last.self = history[5].out.qs
    /\ last.out = [value |-> << [command |-> 1], [command |-> 2] >>]

-----------------------------------------------------------------------------
(* CommandStore: writing *)

\* the commands given to save
Commands ==
    {[user |-> "a", asset |-> "x", system_user |-> "r", input |-> "ls", output |-> "",
      risk_level |-> 5, session |-> "s", timestamp |-> 9, org_id |-> ""]}

\* CommandStore.make_data(command)
make_data(command) ==
    [user |-> command.user, asset |-> command.asset,
     system_user |-> command.system_user, input |-> command.input,
     output |-> command.output, risk_level |-> command.risk_level,
     session |-> command.session, timestamp |-> command.timestamp,
     org_id |-> command.org_id,
     date |-> [fromtimestamp |-> command.timestamp, tz |-> "UTC"]]

\* the es.index(...) call made by CommandStore.save
IndexRequest(data) ==
    [api |-> "index", kw |-> [index |-> index, doc_type |-> doc_type, body |-> data]]

\* what es.index may do: raise, or return the result of the write
IndexResponses == {Raised, [result |-> "created"]}

\* CommandStore.save with the backend answering resp: request and outcome
StoreSave(command, resp) ==
    [reqs |-> <<IndexRequest(make_data(command))>>,
     out |-> IF resp = Raised THEN Raised ELSE [value |-> resp]]

\* storage.save(command)
Save(command, resp) ==
    /\ LET r == StoreSave(command, resp)
       IN  /\ requests' = requests \o r.reqs
           /\ history' = Append(history, Op("save", 0, command, resp, r.reqs, r.out))
    /\ UNCHANGED <<lists, qs>>

\* CommandStore.all()
StoreAll == [reqs |-> <<>>, out |-> [raise |-> "NotImplementedError"]]

\* storage.all()
All ==
    /\ history' = Append(history, Op("all", 0, PyNone, PyNone, StoreAll.reqs, StoreAll.out))
    /\ UNCHANGED <<lists, qs, requests>>

\* what a caller does with the store and with one chain of QuerySet calls:
\* calls chained one on the result of the other, accesses of the instance
\* arrived at, and writes
NextCaller ==
    /\ OpsDone < MaxOps
    /\ UNCHANGED threads
    /\ \/ \E call \in Calls : StageMethodCall(Latest, call)
       \/ \E item \in LogSlices : GetItemFirstSlice(Latest, item)
       \/ \E item \in LogSlices \cup Indexes, resp \in SearchResponses :
                GetItemExecute(Latest, item, resp)
       \/ \E resp \in SearchResponses : Repr(Latest, resp)
       \/ \E resp \in SearchResponses : Iter(Latest, resp)
       \/ \E resp \in CountResponses : Count(Latest, resp)
       \/ \E command \in Commands, resp \in IndexResponses : Save(command, resp)
       \/ All

SpecCaller == Init /\ [][NextCaller]_vars

-----------------------------------------------------------------------------
\* the request an access (or count) of instance i makes, derived from its log
\* and window as they are now
FreshRequest(i, op) ==
    LET grouped == grouped_method_calls(Log(i))
        w == Window(qs[i].slice)
    IN  IF op = "count" THEN CountRequest(filter_kwargs(grouped))
        ELSE SearchRequest(filter_kwargs(grouped), w[1], w[2], sort(grouped))

\* the derived values of instance i, computed from its log as it is now
FreshDerived(i) ==
    LET grouped == grouped_method_calls(Log(i))
    IN  [grouped_method_calls |-> grouped, filter_kwargs |-> filter_kwargs(grouped),
         sort |-> sort(grouped)]

\* C14: when the backend raises during an access (iteration, indexing,
\* rendering), a count or a save, the caller gets that error after exactly one
\* request, no log and no window changes, a derived value that was kept stays
\* and one that is kept from then on is the one derived from the log; a later
\* access or count of the same instance makes one request again, the one its
\* log and window give.
C14_ErrorPropagatesOnce ==
    /\ [](\A m, n \in 1..Len(history) :
              /\ m < n
              /\ history[m].resp = Raised
              /\ IsAccess(history[m]) \/ history[m].op = "count"
              /\ IsAccess(history[n]) \/ history[n].op = "count"
              /\ history[n].self = history[m].self
              => history[n].reqs = <<FreshRequest(history[n].self, history[n].op)>>)
    /\ [][Len(history') = Len(history) + 1 /\ last'.resp = Raised =>
              /\ last'.op \in {"iter", "repr", "getitem", "count", "save"}
              /\ last'.out = Raised
              /\ Len(last'.reqs) = 1
              /\ requests' = Append(requests, last'.reqs[1])
              /\ lists' = lists
              /\ Len(qs') = Len(qs)
              /\ \A i \in 1..Len(qs) :
                     /\ qs'[i].method_calls = qs[i].method_calls
                     /\ qs'[i].slice = qs[i].slice
                     /\ \A f \in DOMAIN NoCache :
                            /\ qs[i].cache[f] # Unset => qs'[i].cache[f] = qs[i].cache[f]
                            /\ qs'[i].cache[f] # Unset =>
                                   qs'[i].cache[f] = <<FreshDerived(i)[f]>>]_vars

\* a search that raised, then the same instance iterated again: two equal
\* requests, the second one answered
C14_Witness ==
    /\ Len(history) = 4
    /\ history[2].op = "stage" /\ history[2].item.name = "filter"
    /\ history[3].op = "iter" /\ history[3].self = 2 /\ history[3].out = Raised
    /\ last.op = "iter" /\ last.self = 2 /\ "value" \in DOMAIN last.out
    /\ Len(requests) = 2
    /\ requests[1] = requests[2]

-----------------------------------------------------------------------------
(* CommandStore: the operations called on the store itself *)

\* the es.ping() call made by CommandStore.ping
PingRequest == [api |-> "ping"]

\* what es.ping may do: raise, or answer
PingResponses == {Raised, [value |-> TRUE], [value |-> FALSE]}

\* a ping that lets the error of the client through
StorePing_Propagates(resp) ==
    [reqs |-> <<PingRequest>>, out |-> resp]

\* CommandStore.ping with the backend answering resp: request and outcome
StorePing(resp) ==
    [reqs |-> <<PingRequest>>,
     out |-> IF resp = Raised THEN [value |-> FALSE] ELSE resp]

\* storage.ping()
Ping(resp) ==
    /\ LET r == StorePing(resp)
       IN  /\ requests' = requests \o r.reqs
           /\ history' = Append(history, Op("ping", 0, PyNone, resp, r.reqs, r.out))
    /\ UNCHANGED <<lists, qs>>

\* the command sets given to bulk_save
CommandSets == {<<>>} \cup {<<command>> : command \in Commands}

\* the bulk(...) call made by CommandStore.bulk_save
BulkRequest(command_set, raise_on_error) ==
    [api |-> "bulk",
     kw |-> [actions |-> [i \in 1..Len(command_set) |->
                             [_index |-> index, _type |-> doc_type,
                              _source |-> make_data(command_set[i])]],
             index |-> index, raise_on_error |-> raise_on_error]]

\* what bulk may do: raise, or return (successes, errors); it returns errors
\* only when it was called with raise_on_error=False
BulkResponses(command_set, raise_on_error) ==
    {Raised, [success |-> Len(command_set), errors |-> <<>>]}
        \cup IF raise_on_error \/ command_set = <<>> THEN {}
             ELSE {[success |-> Len(command_set) - 1, errors |-> <<"failed">>]}

\* CommandStore.bulk_save with the helper answering resp: request and outcome
StoreBulkSave(command_set, raise_on_error, resp) ==
    [reqs |-> <<BulkRequest(command_set, raise_on_error)>>,
     out |-> IF resp = Raised THEN Raised ELSE [value |-> resp]]

\* storage.bulk_save(command_set, raise_on_error)
BulkSave(command_set, raise_on_error, resp) ==
    /\ LET r == StoreBulkSave(command_set, raise_on_error, resp)
       IN  /\ requests' = requests \o r.reqs
           /\ history' = Append(history, Op("bulk_save", 0,
                                            [command_set |-> command_set,
                                             raise_on_error |-> raise_on_error],
                                            resp, r.reqs, r.out))
    /\ UNCHANGED <<lists, qs>>

\* the filter maps given to the store itself
StoreQueries == {EmptyDict, Kw(s_user, "a")}

\* storage.filter(query)
Filter(query, resp) ==
    /\ LET r == StoreFilter(query, PyNone, PyNone, PyNone, resp)
       IN  /\ requests' = requests \o r.reqs
           /\ history' = Append(history, Op("filter", 0, query, resp, r.reqs, r.out))
    /\ UNCHANGED <<lists, qs>>

\* storage.count(query)
CountOf(query, resp) ==
    /\ LET r == StoreCount(query, resp)
       IN  /\ requests' = requests \o r.reqs
           /\ history' = Append(history, Op("count", 0, query, resp, r.reqs, r.out))
    /\ UNCHANGED <<lists, qs>>

\* CommandStore(config)
InitStore ==
    /\ lists = <<>>
    /\ qs = <<>>
    /\ requests = <<>>
    /\ history = << Op("__init__", 0, PyNone, PyNone, <<>>, PyNone) >>
    /\ threads = <<>>

NextStore ==
    /\ OpsDone < MaxOps
    /\ UNCHANGED threads
    /\ \/ \E resp \in PingResponses : Ping(resp)
       \/ \E command \in Commands, resp \in IndexResponses : Save(command, resp)
       \/ \E command_set \in CommandSets, raise_on_error \in BOOLEAN :
              \E resp \in BulkResponses(command_set, raise_on_error) :
                  BulkSave(command_set, raise_on_error, resp)
       \/ \E query \in StoreQueries, resp \in SearchResponses : Filter(query, resp)
       \/ \E query \in StoreQueries, resp \in CountResponses : CountOf(query, resp)
       \/ All

SpecStore == InitStore /\ [][NextStore]_vars

\* C15: ping never raises: it returns a boolean whatever the client does, and
\* False when the client raised; no other operation of the store returns a
\* value when the client raised: save, bulk_save, filter and count raise.
C15_OnlyPingCatches ==
    \A n \in 2..Len(history) :
        /\ history[n].op = "ping" =>
               /\ DOMAIN history[n].out = {"value"}
               /\ history[n].out.value \in BOOLEAN
               /\ history[n].resp = Raised => history[n].out.value = FALSE
        /\ history[n].op # "ping" /\ history[n].resp = Raised =>
               history[n].out = Raised

\* the client raised in a ping, which returned False, and in a write and a
\* search, which raised
C15_Witness ==
    /\ Len(history) = 4
    /\ \E n \in 2..4 : /\ history[n].op = "ping"
                       /\ history[n].resp = Raised
                       /\ history[n].out = [value |-> FALSE]
    /\ \E n \in 2..4 : /\ history[n].op \in {"save", "bulk_save"}
                       /\ history[n].out = Raised
    /\ \E n \in 2..4 : history[n].op = "filter" /\ history[n].out = Raised

-----------------------------------------------------------------------------
\* the names of the entries of a log
NamesOf(log) == {log[n].name : n \in 1..Len(log)}

\* C16: every call named all() fails: it raises NotImplementedError and makes
\* no request, on the store and on a QuerySet alike, and no instance reached
\* through a call of all() gives the result of a search without conditions.
C16_AllAlwaysFails ==
    \A n \in 2..Len(history) :
        /\ history[n].op = "all" \/ (history[n].op = "stage" /\ history[n].item.name = "all") =>
               /\ history[n].out = [raise |-> "NotImplementedError"]
               /\ history[n].reqs = <<>>
        /\ /\ IsAccess(history[n])
           /\ "all" \in NamesOf(Log(history[n].self))
           /\ history[n].reqs # <<>>
           /\ history[n].reqs[1].kw.body = get_query_body(EmptyDict)
           => "value" \notin DOMAIN history[n].out

-----------------------------------------------------------------------------
(* Two threads inside terminal operations of one QuerySet *)

\* the longest log of the instance the threads share
MaxLog == 2

Threads == {"t1", "t2"}

\* the logs the shared instance may have been built with
RECURSIVE LogsOf(_)
LogsOf(n) ==
    IF n = 0 THEN {<<>>}
    ELSE LogsOf(n - 1) \cup {Append(log, call) : log \in LogsOf(n - 1), call \in Calls}

\* the terminal operations a thread may run: (name, key)
ThreadOps == {<<"iter", PyNone>>, <<"getitem", PyInt(0)>>, <<"count", PyNone>>}

\* a thread that has not entered its operation
Idle ==
    [pc |-> "idle", op |-> "", item |-> PyNone, ret |-> "",
     grouped_method_calls |-> Unset, filter_kwargs |-> Unset, sort |-> Unset,
     computed |-> {}, reqs |-> <<>>, out |-> PyNone]

\* one instance, built by a chain of calls and not accessed yet, and two
\* threads holding it
InitThreads ==
    /\ \E log \in LogsOf(MaxLog), item \in {PyNone} \cup LogSlices :
           LET slice == IF item = PyNone THEN PyNone ELSE SliceOf(item)
           IN  /\ lists = << log >>
               /\ qs = << QuerySetOf(1, slice) >>
               /\ history = << Op("__init__", 1, [method_calls |-> log, slice |-> slice],
                                  PyNone, <<>>, [qs |-> 1]) >>
    /\ requests = <<>>
    /\ threads = [t \in Threads |-> Idle]

\* thread t enters iter(self), self[key] or self.count()
Enter(t, op, item) ==
    /\ threads[t].pc = "idle"
    /\ threads' = [threads EXCEPT ![t] =
                       [@ EXCEPT !.pc = "filter_kwargs", !.op = op, !.item = item]]
    /\ UNCHANGED <<lists, qs, requests, history>>

\* where a thread goes once it holds the filter map: count() makes its
\* request, __execute reads self._sort
AfterFilterKwargs(op) == IF op = "count" THEN "request" ELSE "sort"

\* thread t reads self._filter_kwargs: the kept value if there is one, else
\* the property function is entered
GetFilterKwargs(t) ==
    /\ threads[t].pc = "filter_kwargs"
    /\ threads' = [threads EXCEPT ![t] =
           IF qs[Latest].cache.filter_kwargs # Unset
           THEN [@ EXCEPT !.filter_kwargs = qs[Latest].cache.filter_kwargs,
                          !.pc = AfterFilterKwargs(threads[t].op)]
           ELSE [@ EXCEPT !.pc = "grouped_method_calls", !.ret = "filter_kwargs"]]
    /\ UNCHANGED <<lists, qs, requests, history>>

\* thread t reads self._sort: the kept value if there is one, else the
\* property function is entered
GetSort(t) ==
    /\ threads[t].pc = "sort"
    /\ threads' = [threads EXCEPT ![t] =
           IF qs[Latest].cache.sort # Unset
           THEN [@ EXCEPT !.sort = qs[Latest].cache.sort, !.pc = "request"]
           ELSE [@ EXCEPT !.pc = "grouped_method_calls", !.ret = "sort"]]
    /\ UNCHANGED <<lists, qs, requests, history>>

\* where a thread goes once it holds the grouped view: back into the property
\* function it came from
ComputeOf(ret) == IF ret = "filter_kwargs" THEN "compute_filter_kwargs" ELSE "compute_sort"

\* thread t, inside _filter_kwargs or _sort, reads self._grouped_method_calls:
\* the kept value if there is one, else it groups the log
GetGrouped(t) ==
    /\ threads[t].pc = "grouped_method_calls"
    /\ threads' = [threads EXCEPT ![t] =
           IF qs[Latest].cache.grouped_method_calls # Unset
           THEN [@ EXCEPT !.grouped_method_calls = qs[Latest].cache.grouped_method_calls,
                          !.pc = ComputeOf(threads[t].ret)]
           ELSE [@ EXCEPT !.grouped_method_calls = <<grouped_method_calls(Log(Latest))>>,
                          !.computed = @ \cup {"grouped_method_calls"},
                          !.pc = "keep_grouped_method_calls"]]
    /\ UNCHANGED <<lists, qs, requests, history>>

\* thread t keeps on the instance the grouped view it has computed
KeepGrouped(t) ==
    /\ threads[t].pc = "keep_grouped_method_calls"
    /\ qs' = [qs EXCEPT ![Latest].cache.grouped_method_calls =
                            threads[t].grouped_method_calls]
    /\ threads' = [threads EXCEPT ![t].pc = ComputeOf(threads[t].ret)]
    /\ UNCHANGED <<lists, requests, history>>

\* thread t computes the filter map from the grouped view it holds
ComputeFilterKwargs(t) ==
    /\ threads[t].pc = "compute_filter_kwargs"
    /\ threads' = [threads EXCEPT ![t] =
           [@ EXCEPT !.filter_kwargs =
                         <<filter_kwargs(threads[t].grouped_method_calls[1])>>,
                     !.computed = @ \cup {"filter_kwargs"},
                     !.pc = "keep_filter_kwargs"]]
    /\ UNCHANGED <<lists, qs, requests, history>>

\* thread t keeps on the instance the filter map it has computed
KeepFilterKwargs(t) ==
    /\ threads[t].pc = "keep_filter_kwargs"
    /\ qs' = [qs EXCEPT ![Latest].cache.filter_kwargs = threads[t].filter_kwargs]
    /\ threads' = [threads EXCEPT ![t].pc = AfterFilterKwargs(threads[t].op)]
    /\ UNCHANGED <<lists, requests, history>>

\* thread t computes the sort from the grouped view it holds
ComputeSort(t) ==
    /\ threads[t].pc = "compute_sort"
    /\ threads' = [threads EXCEPT ![t] =
           [@ EXCEPT !.sort = <<sort(threads[t].grouped_method_calls[1])>>,
                     !.computed = @ \cup {"sort"},
                     !.pc = "keep_sort"]]
    /\ UNCHANGED <<lists, qs, requests, history>>

\* thread t keeps on the instance the sort it has computed
KeepSort(t) ==
    /\ threads[t].pc = "keep_sort"
    /\ qs' = [qs EXCEPT ![Latest].cache.sort = threads[t].sort]
    /\ threads' = [threads EXCEPT ![t].pc = "request"]
    /\ UNCHANGED <<lists, requests, history>>

\* what thread t asks of the store with the values it holds, the backend
\* answering resp: request and outcome
ThreadRequest(th, slice, resp) ==
    LET w == Window(slice)
    IN  IF th.op = "count" THEN StoreCount(th.filter_kwargs[1], resp)
        ELSE StoreFilter(th.filter_kwargs[1], w[1], w[2], th.sort[1], resp)

\* a result kept on the instance: a thread that finds another one done makes
\* no request of its own
Request_Memoized(t, resp) ==
    /\ threads[t].pc = "request"
    /\ LET r == ThreadRequest(threads[t], qs[Latest].slice, resp)
           reqs == IF \E u \in Threads : threads[u].pc = "done" THEN <<>> ELSE r.reqs
           out == IF r.out = Raised \/ threads[t].op # "getitem" THEN r.out
                  ELSE ListGetItem(r.out.value, threads[t].item)
       IN  /\ requests' = requests \o reqs
           /\ history' = Append(history, Op(threads[t].op, Latest, threads[t].item,
                                            resp, reqs, out))
           /\ threads' = [threads EXCEPT ![t] =
                              [@ EXCEPT !.reqs = reqs, !.out = out, !.pc = "done"]]
    /\ UNCHANGED <<lists, qs>>

\* thread t makes its request to the store and returns
Request(t, resp) ==
    /\ threads[t].pc = "request"
    /\ LET r == ThreadRequest(threads[t], qs[Latest].slice, resp)
           out == IF r.out = Raised \/ threads[t].op # "getitem" THEN r.out
                  ELSE ListGetItem(r.out.value, threads[t].item)
       IN  /\ requests' = requests \o r.reqs
           /\ history' = Append(history, Op(threads[t].op, Latest, threads[t].item,
                                            resp, r.reqs, out))
           /\ threads' = [threads EXCEPT ![t] =
                              [@ EXCEPT !.reqs = r.reqs, !.out = out, !.pc = "done"]]
    /\ UNCHANGED <<lists, qs>>

NextThreads ==
    \E t \in Threads :
        \/ \E o \in ThreadOps : Enter(t, o[1], o[2])
        \/ GetFilterKwargs(t)
        \/ GetGrouped(t)
        \/ KeepGrouped(t)
        \/ ComputeFilterKwargs(t)
        \/ KeepFilterKwargs(t)
        \/ GetSort(t)
        \/ ComputeSort(t)
        \/ KeepSort(t)
        \/ \E resp \in IF threads[t].op = "count" THEN CountResponses ELSE SearchResponses :
               Request(t, resp)

SpecThreads == InitThreads /\ [][NextThreads]_vars

\* the request one access (or count) of the instance makes when it is the
\* only one, the instance being as it was built
SequentialRequest(op) ==
    LET built == history[1].item
        q == QuerySetOf(1, built.slice)
        h == << built.method_calls >>
    IN  IF op = "count"
        THEN StoreCount(ReadFilterKwargs(h, q).cache.filter_kwargs[1], Raised).reqs
        ELSE Execute(h, q, Raised).reqs

\* C17: two threads running terminal operations on one instance, their steps
\* interleaved in any way (both computing the lazily kept values included):
\* each thread makes exactly one request, the one the operation makes when it
\* runs alone, and the log and the window of the instance stay as they were.
C17_ThreadsAreIndependent ==
    /\ \A t \in Threads :
           threads[t].pc = "done" =>
               /\ Len(threads[t].reqs) = 1
               /\ threads[t].reqs = SequentialRequest(threads[t].op)
    /\ Len(requests) = Cardinality({t \in Threads : threads[t].pc = "done"})
    /\ Log(Latest) = history[1].item.method_calls
    /\ qs[Latest].slice = history[1].item.slice
    /\ Len(qs) = 1 /\ Len(lists) = 1

\* both threads are done, each has computed the filter map and the sort
\* itself, on an instance with a filter call, an order_by call and a window
C17_Witness ==
    /\ \A t \in Threads :
           /\ threads[t].pc = "done"
           /\ threads[t].computed = {"grouped_method_calls", "filter_kwargs", "sort"}
    /\ NamesOf(Log(Latest)) = {"filter", "order_by"}
    /\ qs[Latest].slice # PyNone
    /\ Len(requests) = 2
    /\ requests[1] = requests[2]

-----------------------------------------------------------------------------
\* C18: the log only grows along a chain: the instance a staged call returns
\* has the log of the instance it was called on followed by exactly one new
\* entry (name, args, kwargs), the earlier entries in their order and as they
\* were; the instance a first slice returns has a log equal to the log of the
\* instance it was called on.
C18_LogAppendOnly ==
    \A n \in 2..Len(history) :
        /\ history[n].op = "stage" =>
               /\ DOMAIN history[n].item = {"name", "args", "kwargs"}
               /\ Log(history[n].out.qs) = Log(history[n].self) \o <<history[n].item>>
        /\ history[n].op = "slice" =>
               Log(history[n].out.qs) = Log(history[n].self)

\* a call staged on an instance that has a log of its own, and a slice of the
\* instance it returned
C18_Witness ==
    /\ Len(history) = 4
    /\ history[2].op = "stage" /\ history[2].item.name = "filter"
    /\ history[3].op = "stage" /\ history[3].item.name = "order_by"
    /\ history[3].self = history[2].out.qs
    /\ last.op = "slice" /\ last.self = history[3].out.qs
    /\ Log(last.out.qs) = <<history[2].item, history[3].item>>

-----------------------------------------------------------------------------
\* C19: a derived value kept on an instance is never stale: in every state
\* and for every instance, the kept grouped view, filter map and sort are the
\* ones derived from the log the instance has now.
C19_KeptValuesAreFresh ==
    \A i \in 1..Len(qs) :
        \A f \in DOMAIN NoCache :
            qs[i].cache[f] # Unset => qs[i].cache[f] = <<FreshDerived(i)[f]>>

\* an instance was accessed, a filter call was then staged on it, and the
\* instance returned was accessed: the two keep different filter maps
C19_Witness ==
    /\ Len(history) = 4
    /\ IsAccess(history[2])
    /\ history[3].op = "stage" /\ history[3].self = history[2].self
    /\ history[3].item.name = "filter"
    /\ IsAccess(last) /\ last.self = history[3].out.qs
    /\ qs[last.self].cache.filter_kwargs # Unset
    /\ qs[history[2].self].cache.filter_kwargs # Unset
    /\ qs[last.self].cache.filter_kwargs # qs[history[2].self].cache.filter_kwargs

-----------------------------------------------------------------------------
\* self.<name>(*args, **kwargs) on instance b, as the heap and the instance
\* returned
Staged(b, call) ==
    LET c == clone(lists, qs[b])
    IN  <<[c[1] EXCEPT ![c[2].method_calls] = Append(@, call)], c[2]>>

\* b.<name>(*args, **kwargs)[start:stop] for b without a window, as the heap
\* and the instance returned
StagedThenSliced(b, call, item) ==
    LET s == Staged(b, call)
        c == clone(s[1], s[2])
    IN  <<c[1], [c[2] EXCEPT !.slice = SliceOf(item)]>>

\* the requests an access of an instance makes
AccessRequests(hq) == Execute(hq[1], hq[2], Raised).reqs

\* b[s:e].c and b.c[s:e] for an instance b without a window: an access of the
\* first makes the request an access of the second makes
SliceThenCallAsCallThenSlice ==
    \A n1, n2, n3 \in 2..Len(history) :
        /\ history[n1].op = "slice"
        /\ history[n2].op = "stage" /\ history[n2].self = history[n1].out.qs
        /\ IsAccess(history[n3]) /\ history[n3].self = history[n2].out.qs
        => history[n3].reqs = AccessRequests(StagedThenSliced(
                                  history[n1].self, history[n2].item, history[n1].item))

\* C20 as claimed: for any instance b, slice [s:e] and chained call c (filter
\* or order_by), b[s:e].c and b.c[s:e] make the same search request: same
\* body, sort, from and size. For b with a window, b[s:e] is the search that
\* b makes and b.c[s:e] the search that b.c makes.
C20_SliceCommutesOnAnyInstance ==
    /\ SliceThenCallAsCallThenSlice
    /\ \A n \in 2..Len(history) :
           history[n].op = "getitem" /\ IsSlice(history[n].item) =>
               \A call \in Calls :
                   call.name \in {"filter", "order_by"} =>
                       history[n].reqs = AccessRequests(Staged(history[n].self, call))

\* C20 as amended: for any instance b that has no window, slice [s:e] and
\* chained call c, b[s:e].c and b.c[s:e] make the same search request: same
\* body, sort, from and size.
C20_SliceCommutesWithoutWindow ==
    /\ SliceThenCallAsCallThenSlice
    /\ \A n \in 2..Len(history) :
           history[n].op = "slice" => qs[history[n].self].slice = PyNone

\* a slice, a filter call staged on the instance it returned, and an answered
\* access of the result, which asked for the window and for the filter
C20_Witness ==
    /\ Len(history) = 4
    /\ history[2].op = "slice"
    /\ history[3].op = "stage" /\ history[3].self = history[2].out.qs
    /\ history[3].item.name = "filter"
    /\ IsAccess(last) /\ last.self = history[3].out.qs
    /\ "value" \in DOMAIN last.out
    /\ last.reqs[1].kw.from_ = PyInt(SliceOf(history[2].item).from_)
    /\ Len(last.reqs[1].kw.body.query.bool.filter) = 1

====
